---- MODULE Spec2Model ----
(***************************************************************************)
(* Parser combinators (parser_combinators.hpp): character predicates, the  *)
(* pstream cursor, the primitive recognisers and the combinators, run as a *)
(* call/return machine over an explicit stack of invocations.              *)
(***************************************************************************)
EXTENDS Integers, Sequences, FiniteSets, TLC

\* Longest input stream that is enumerated.
MaxLen == 3
\* pstream::count is exact up to MaxCount and stays there beyond it, so that a
\* parser that never stops has finitely many states.
MaxCount == 5

\* ------------------------------------------------------------------------
\* Symbols: int-coded characters (ASCII), EOF is -1.

EOF == -1
Alphabet == {97, 120, 49, 43, 42, 32, 10}

CharStr(c) ==
    CASE c = 97 -> "a" [] c = 98 -> "b" [] c = 120 -> "x" [] c = 49 -> "1"
      [] c = 43 -> "+" [] c = 45 -> "-" [] c = 42 -> "*" [] c = 47 -> "/"
      [] c = 32 -> " " [] c = 10 -> "\n" [] OTHER -> "?"

\* ------------------------------------------------------------------------
\* Character predicates, as values [k, c, ps]; holds is their operator().

Pred(k, c, ps) == [k |-> k, c |-> c, ps |-> ps]

is_any == Pred("anything", 0, <<>>)
is_space == Pred("space", 0, <<>>)
is_digit == Pred("digit", 0, <<>>)
is_upper == Pred("uppercase", 0, <<>>)
is_lower == Pred("lowercase", 0, <<>>)
is_alpha == Pred("alphabetic", 0, <<>>)
is_alnum == Pred("alphanumeric", 0, <<>>)
is_print == Pred("printable", 0, <<>>)
is_char(c) == Pred("char", c, <<>>)
is_eof == is_char(EOF)
is_either(p1, p2) == Pred("either", 0, <<p1, p2>>)
is_not(p1) == Pred("not", 0, <<p1>>)

\* The C-locale classification the class predicates call.
isspace(c) == c = 32 \/ (c >= 9 /\ c <= 13)
isdigit(c) == c >= 48 /\ c <= 57
isupper(c) == c >= 65 /\ c <= 90
islower(c) == c >= 97 /\ c <= 122
isprint(c) == c >= 32 /\ c <= 126

RECURSIVE holds(_, _)
holds_not(P, c) == ~holds(P.ps[1], c)
holds(P, c) ==
    CASE P.k = "anything" -> c # EOF
      [] P.k = "space" -> isspace(c)
      [] P.k = "digit" -> isdigit(c)
      [] P.k = "uppercase" -> isupper(c)
      [] P.k = "lowercase" -> islower(c)
      [] P.k = "alphabetic" -> isupper(c) \/ islower(c)
      [] P.k = "alphanumeric" -> isupper(c) \/ islower(c) \/ isdigit(c)
      [] P.k = "printable" -> isprint(c)
      [] P.k = "char" -> P.c = c
      [] P.k = "either" -> holds(P.ps[1], c) \/ holds(P.ps[2], c)
      [] P.k = "not" -> holds_not(P, c)

RECURSIVE name(_)
name(P) ==
    CASE P.k = "char" -> "'" \o CharStr(P.c) \o "'"
      [] P.k = "either" -> "(" \o name(P.ps[1]) \o " or " \o name(P.ps[2]) \o ")"
      [] P.k = "not" -> "~" \o name(P.ps[1])
      [] OTHER -> P.k

\* ------------------------------------------------------------------------
\* pstream: the stream buffer (data, gpos) and count, row, col, sym.

sbumpc(data) == IF Len(data) >= 1 THEN data[1] ELSE EOF
sgetc(in) == IF in.gpos <= Len(in.data) THEN in.data[in.gpos] ELSE EOF
snextc(in) == IF in.gpos <= Len(in.data) THEN in.gpos + 1 ELSE in.gpos

pstream(data) ==
    [data |-> data, gpos |-> IF Len(data) >= 1 THEN 2 ELSE 1,
     count |-> 0, row |-> 1, col |-> 1, sym |-> sbumpc(data)]

next(in) ==
    LET s == sgetc(in) IN
    [in EXCEPT !.sym = s, !.gpos = snextc(in),
               !.count = IF @ < MaxCount THEN @ + 1 ELSE @,
               !.row = IF s = 10 THEN @ + 1 ELSE @,
               !.col = IF s = 10 THEN 0 ELSE IF isprint(s) THEN @ + 1 ELSE @]

NoError == [what |-> "", row |-> 0, col |-> 0, exp |-> "", sym |-> 0]
parse_error(what, row, col, exp, sym) ==
    [what |-> what, row |-> row, col |-> col, exp |-> exp, sym |-> sym]

\* ------------------------------------------------------------------------
\* Parser values [op, pred, f, ps].

Parser(op, pred, f, ps) == [op |-> op, pred |-> pred, f |-> f, ps |-> ps]

accept(P) == Parser("accept", P, "none", <<>>)
expect(P) == Parser("expect", P, "none", <<>>)
succ == Parser("succ", is_any, "none", <<>>)
fail == Parser("fail", is_any, "none", <<>>)
any(f, ps) == Parser("any", is_any, f, ps)
all(f, ps) == Parser("all", is_any, f, ps)
choice(p1, p2) == Parser("choice", is_any, "none", <<p1, p2>>)
sequence(p1, p2) == Parser("sequence", is_any, "none", <<p1, p2>>)
many(p) == Parser("many", is_any, "none", <<p>>)
discard(p) == Parser("discard", is_any, "none", <<p>>)
option(p) == choice(p, succ)
some(p) == sequence(p, many(p))

\* Result types: "void", "string", "int", "op", and two classes "Base" and
\* "Derived", Derived publicly derived from Base.
Types == {"void", "string", "int", "Base", "Derived"}

\* is_convertible<a*, b*>: a pointer converts to a pointer to the same type,
\* to void* and to a pointer to a base class
is_convertible(a, b) == a = b \/ b = "void" \/ (a = "Derived" /\ b = "Base")

is_compatible(a, b) == is_convertible(a, b) \/ is_convertible(b, a)

\* least_general that takes the type the other converts to
least_general_widest(t1, t2) ==
    IF is_convertible(t2, t1) /\ t1 # t2 THEN t1
    ELSE IF is_convertible(t1, t2) \/ t1 = t2 THEN t2
    ELSE "none"

\* least_general<P1, P2>::result_type by its two specialisations, "none"
\* where neither is enabled
least_general(t1, t2) ==
    IF is_convertible(t2, t1) /\ t1 # t2 THEN t2
    ELSE IF is_convertible(t1, t2) \/ t1 = t2 THEN t1
    ELSE "none"

functor_result(f) ==
    CASE f = "return_int" -> "int"
      [] f = "return_op" -> "op"
      [] f = "return_left" -> "int"
      [] f = "return_right" -> "int"

RECURSIVE result_type(_)
result_type(p) ==
    CASE p.op \in {"accept", "expect"} -> "string"
      [] p.op \in {"succ", "fail", "discard"} -> "void"
      [] p.op \in {"any", "all"} -> functor_result(p.f)
      [] p.op \in {"choice", "sequence"} ->
            least_general(result_type(p.ps[1]), result_type(p.ps[2]))
      [] p.op = "many" -> result_type(p.ps[1])

\* A default-constructed (value-initialised) object of a result type.
Default(t) == IF t \in {"int", "op"} THEN 0 ELSE <<>>

\* ------------------------------------------------------------------------
\* Reducers of example_expression.cpp.

RECURSIVE stoi(_)
stoi(num) ==
    IF Len(num) = 0 THEN 0
    ELSE 10 * stoi(SubSeq(num, 1, Len(num) - 1)) + (num[Len(num)] - 48)

return_int(old, idx, args) == stoi(args[1])
return_op(old, idx, args) == idx
return_left(old, idx, args) == args[1]
\* a / b of two ints, b not 0: the quotient is truncated towards zero
quot(a, b) ==
    IF (a >= 0) = (b >= 0) THEN (IF a >= 0 THEN a ELSE -a) \div (IF b >= 0 THEN b ELSE -b)
    ELSE -((IF a >= 0 THEN a ELSE -a) \div (IF b >= 0 THEN b ELSE -b))

\* return_right with the operands of - and / the other way round
return_right_reversed(old, idx, args) ==
    CASE args[1] = 0 -> args[2] + old
      [] args[1] = 1 -> args[2] - old
      [] args[1] = 2 -> args[2] * old
      [] args[1] = 3 -> quot(args[2], old)

return_right(old, idx, args) ==
    CASE args[1] = 0 -> old + args[2]
      [] args[1] = 1 -> old - args[2]
      [] args[1] = 2 -> old * args[2]
      [] args[1] = 3 -> quot(old, args[2])

functor(f, old, idx, args) ==
    CASE f = "return_int" -> return_int(old, idx, args)
      [] f = "return_op" -> return_op(old, idx, args)
      [] f = "return_left" -> return_left(old, idx, args)
      [] f = "return_right" -> return_right(old, idx, args)

\* ------------------------------------------------------------------------
\* The machine: m = [in, stack, ret, mem, err, fault, calls, rmoved, ub].
\*   in     the pstream
\*   stack  the invocations of operator() in progress, innermost last
\*   ret    the value the last finished invocation returned
\*   mem    the result slots: mem[1] is the caller's, the rest are the
\*          tmp tuples of the any/all invocations in progress; 0 is nullptr
\*   err    the parse_error thrown, NoError if none
\*   fault  a reducer was handed nullptr and wrote through it
\*   calls  the reducer invocations so far, [f, res, idx, args]
\*   rmoved whether the invocation that returned last has advanced the stream
\*   ub     what this build does at a store through nullptr, which is
\*          undefined: "trap" (the store faults and the process is killed) or
\*          "elide" (the store is dropped and execution goes on)

\* An invocation p(in, res) in progress: pc is where it stands, i and base the
\* sub-parser an any/all is at and where its tmp tuple starts; r0 records *res
\* as it was on entry and moved whether pstream::next() has run since entry.
Frame(p, res, r0) ==
    [p |-> p, res |-> res, pc |-> "enter", i |-> 0, base |-> 0,
     r0 |-> r0, moved |-> FALSE]

Top(m) == m.stack[Len(m.stack)]

\* *res, or the empty value when res is nullptr
Deref(m, res) == IF res = 0 THEN <<>> ELSE m.mem[res]

\* return b from the innermost invocation
Return(m, b) ==
    [m EXCEPT !.stack = SubSeq(@, 1, Len(@) - 1), !.ret = b,
              !.rmoved = Top(m).moved]

\* the innermost invocation moves to pc and invokes q(in, res)
Call(m, pc, q, res) ==
    [m EXCEPT !.stack = Append([@ EXCEPT ![Len(@)].pc = pc],
                               Frame(q, res, Deref(m, res)))]

\* error with the message and the expectation swapped
error_swapped(m, what, exp) ==
    [m EXCEPT !.err = parse_error(exp, m.in.row, m.in.col, what, m.in.sym),
              !.stack = <<>>, !.mem = SubSeq(@, 1, 1)]

\* throw parse_error: unwinds every invocation and its temporaries
error(m, what, exp) ==
    [m EXCEPT !.err = parse_error(what, m.in.row, m.in.col, exp, m.in.sym),
              !.stack = <<>>, !.mem = SubSeq(@, 1, 1)]

\* in.next(), seen by every invocation in progress
Advance(m) ==
    [m EXCEPT !.in = next(@),
              !.stack = [k \in DOMAIN @ |-> [@[k] EXCEPT !.moved = TRUE]]]

\* result->push_back(sym) when result is not nullptr (sym narrows to char:
\* the model keeps its int code, EOF included)
push_back(m, res, sym) ==
    [m EXCEPT !.mem = IF res # 0 THEN [@ EXCEPT ![res] = Append(@, sym)] ELSE @]

\* recogniser_accept with push_back and next() moved above the test
recogniser_accept_eager(m) ==
    LET fr == Top(m)
        sym == m.in.sym
    IN  Return(Advance(push_back(m, fr.res, sym)), holds(fr.p.pred, sym))

\* recogniser_accept with next() moved above the test
recogniser_accept_advance(m) ==
    LET fr == Top(m)
        sym == m.in.sym
    IN  IF ~holds(fr.p.pred, sym) THEN Return(Advance(m), FALSE)
        ELSE Return(Advance(push_back(m, fr.res, sym)), TRUE)

recogniser_accept(m) ==
    LET fr == Top(m)
        sym == m.in.sym
    IN  IF ~holds(fr.p.pred, sym) THEN Return(m, FALSE)
        ELSE Return(Advance(push_back(m, fr.res, sym)), TRUE)

recogniser_expect(m) ==
    LET fr == Top(m)
        sym == m.in.sym
    IN  IF ~holds(fr.p.pred, sym) THEN error(m, "expected", name(fr.p.pred))
        ELSE Return(Advance(push_back(m, fr.res, sym)), TRUE)

parser_succ(m) == Return(m, TRUE)

parser_fail(m) == Return(m, FALSE)

\* combinator_choice that gives up when p1 failed after advancing the stream
combinator_choice_commit(m) ==
    LET fr == Top(m) IN
    CASE fr.pc = "enter" -> Call(m, "p1", fr.p.ps[1], fr.res)
      [] fr.pc = "p1" -> IF m.ret THEN Return(m, TRUE)
                         ELSE IF fr.moved THEN Return(m, FALSE)
                         ELSE Call(m, "p2", fr.p.ps[2], fr.res)
      [] fr.pc = "p2" -> Return(m, m.ret)

combinator_choice(m) ==
    LET fr == Top(m) IN
    CASE fr.pc = "enter" -> Call(m, "p1", fr.p.ps[1], fr.res)
      [] fr.pc = "p1" -> IF m.ret THEN Return(m, TRUE)
                         ELSE Call(m, "p2", fr.p.ps[2], fr.res)
      [] fr.pc = "p2" -> Return(m, m.ret)

\* combinator_sequence with & for &&: p2 is run whatever p1 returned
combinator_sequence_eager(m) ==
    LET fr == Top(m) IN
    CASE fr.pc = "enter" -> Call(m, "p1", fr.p.ps[1], fr.res)
      [] fr.pc = "p1" -> Call([m EXCEPT !.stack[Len(m.stack)].i = IF m.ret THEN 1 ELSE 0],
                              "p2", fr.p.ps[2], fr.res)
      [] fr.pc = "p2" -> Return(m, fr.i = 1 /\ m.ret)

combinator_sequence(m) ==
    LET fr == Top(m) IN
    CASE fr.pc = "enter" -> Call(m, "p1", fr.p.ps[1], fr.res)
      [] fr.pc = "p1" -> IF m.ret THEN Call(m, "p2", fr.p.ps[2], fr.res)
                         ELSE Return(m, FALSE)
      [] fr.pc = "p2" -> Return(m, m.ret)

\* combinator_many that returns what the last run of p returned
combinator_many_last(m) ==
    LET fr == Top(m) IN
    CASE fr.pc = "enter" -> Call(m, "p", fr.p.ps[1], fr.res)
      [] fr.pc = "p" -> IF m.ret THEN Call(m, "p", fr.p.ps[1], fr.res)
                        ELSE Return(m, m.ret)

\* combinator_many that returns false when the failing run of p had advanced
\* the stream
combinator_many_commit(m) ==
    LET fr == Top(m) IN
    CASE fr.pc = "enter" -> Call(m, "p", fr.p.ps[1], fr.res)
      [] fr.pc = "p" -> IF m.ret THEN Call(m, "p", fr.p.ps[1], fr.res)
                        ELSE Return(m, ~m.rmoved)

combinator_many(m) ==
    LET fr == Top(m) IN
    CASE fr.pc = "enter" -> Call(m, "p", fr.p.ps[1], fr.res)
      [] fr.pc = "p" -> IF m.ret THEN Call(m, "p", fr.p.ps[1], fr.res)
                        ELSE Return(m, TRUE)

combinator_discard(m) ==
    LET fr == Top(m) IN
    CASE fr.pc = "enter" -> Call(m, "p", fr.p.ps[1], 0)
      [] fr.pc = "p" -> Return(m, m.ret)

\* tmp_type tmp {}: one value-initialised temporary per sub-parser
tmp_type(p) == [k \in 1..Len(p.ps) |-> Default(result_type(p.ps[k]))]

\* the temporaries of the innermost invocation
Tmp(m) == LET fr == Top(m) IN SubSeq(m.mem, fr.base + 1, fr.base + Len(fr.p.ps))

\* any_parsers / all_parsers: enter with the tuple and run the first sub-parser
Enter(m) ==
    LET fr == Top(m)
        base == Len(m.mem)
        m1 == [m EXCEPT !.mem = @ \o tmp_type(fr.p),
                        !.stack[Len(m.stack)].base = base,
                        !.stack[Len(m.stack)].i = 1]
    IN  Call(m1, "sub", fr.p.ps[1], base + 1)

\* Step that runs the next sub-parser on the temporary of the one before it
Step_same_tmp(m) ==
    LET fr == Top(m)
        m1 == [m EXCEPT !.stack[Len(m.stack)].i = fr.i + 1]
    IN  Call(m1, "sub", fr.p.ps[fr.i + 1], fr.base + fr.i)

\* run the next sub-parser on its own temporary
Step(m) ==
    LET fr == Top(m)
        m1 == [m EXCEPT !.stack[Len(m.stack)].i = fr.i + 1]
    IN  Call(m1, "sub", fr.p.ps[fr.i + 1], fr.base + fr.i + 1)

\* leave the invocation: the temporaries go out of scope
Leave(m, b) == [Return(m, b) EXCEPT !.mem = SubSeq(@, 1, Top(m).base)]

\* f(result, tmp...) or f(result, i, tmp...), then return true
Reduce(m, idx) ==
    LET fr == Top(m)
        args == Tmp(m)
        m1 == [m EXCEPT !.calls = Append(@, [f |-> fr.p.f, res |-> fr.res,
                                              idx |-> idx, args |-> args])]
    IN  IF fr.res = 0
        THEN IF m.ub = "trap"
             THEN [m1 EXCEPT !.fault = TRUE, !.stack = <<>>, !.mem = SubSeq(@, 1, 1)]
             ELSE Leave(m1, TRUE)
        ELSE Leave([m1 EXCEPT !.mem[fr.res] = functor(fr.p.f, @, idx, args)], TRUE)

\* fmap_choice that hands the reducer the one-based index
fmap_choice_one_based(m) ==
    LET fr == Top(m) IN
    CASE fr.pc = "enter" -> Enter(m)
      [] fr.pc = "sub" -> IF m.ret THEN Reduce(m, fr.i)
                          ELSE IF fr.i < Len(fr.p.ps) THEN Step(m)
                          ELSE Leave(m, FALSE)

fmap_choice(m) ==
    LET fr == Top(m) IN
    CASE fr.pc = "enter" -> Enter(m)
      [] fr.pc = "sub" -> IF m.ret THEN Reduce(m, fr.i - 1)
                          ELSE IF fr.i < Len(fr.p.ps) THEN Step(m)
                          ELSE Leave(m, FALSE)

\* fmap_sequence that calls the reducer without testing all_parsers
fmap_sequence_unchecked(m) ==
    LET fr == Top(m) IN
    CASE fr.pc = "enter" -> Enter(m)
      [] fr.pc = "sub" -> IF m.ret /\ fr.i < Len(fr.p.ps) THEN Step(m)
                          ELSE Reduce(m, -1)

fmap_sequence(m) ==
    LET fr == Top(m) IN
    CASE fr.pc = "enter" -> Enter(m)
      [] fr.pc = "sub" -> IF m.ret
                          THEN IF fr.i < Len(fr.p.ps) THEN Step(m)
                               ELSE Reduce(m, -1)
                          ELSE Leave(m, FALSE)

\* p(in, result): the next step of the innermost invocation, which is the
\* operator() of the class of p
invoke(m) ==
    LET op == Top(m).p.op IN
    CASE op = "accept" -> recogniser_accept(m)
      [] op = "expect" -> recogniser_expect(m)
      [] op = "succ" -> parser_succ(m)
      [] op = "fail" -> parser_fail(m)
      [] op = "any" -> fmap_choice(m)
      [] op = "all" -> fmap_sequence(m)
      [] op = "choice" -> combinator_choice(m)
      [] op = "sequence" -> combinator_sequence(m)
      [] op = "many" -> combinator_many(m)
      [] op = "discard" -> combinator_discard(m)

\* Most steps of one parse that are followed when a parse is run on its own.
MaxSteps == 200

\* the machine when the outermost invocation is over, run on its own
RECURSIVE run(_, _)
run(m, n) == IF m.stack = <<>> \/ n = 0 THEN m ELSE run(invoke(m), n - 1)

\* ------------------------------------------------------------------------
\* The parsers that are run and the streams they are run on.

recognise_number == some(accept(is_digit))
recognise_space == many(accept(is_space))
parse_operand == sequence(discard(recognise_space), all("return_int", <<recognise_number>>))
any_operator ==
    any("return_op", <<accept(is_char(43)), accept(is_char(45)),
                       accept(is_char(42)), accept(is_char(47))>>)
parse_operator == sequence(discard(recognise_space), any_operator)
parse ==
    sequence(all("return_left", <<parse_operand>>),
             many(all("return_right", <<parse_operator, parse_operand>>)))

a_then_b == sequence(accept(is_char(97)), accept(is_char(98)))
a_then_x == sequence(accept(is_char(97)), accept(is_char(120)))
a_then_x_or_a ==
    any("return_op", <<a_then_x, accept(is_char(97)),
                       accept(is_char(120)), accept(is_digit)>>)

Parsers ==
    { accept(is_char(97)), accept(is_digit), accept(is_any),
      accept(is_not(is_digit)), accept(is_either(is_digit, is_char(120))),
      accept(is_not(is_either(is_space, is_lower))),
      expect(is_digit), expect(is_char(97)),
      expect(is_either(is_digit, is_char(120))), expect(is_not(is_space)),
      succ, fail,
      a_then_b, a_then_x,
      choice(accept(is_char(97)), accept(is_char(120))),
      choice(a_then_b, accept(is_char(120))),
      choice(fail, accept(is_char(97))),
      sequence(succ, accept(is_char(97))),
      sequence(accept(is_char(97)), fail),
      option(accept(is_char(97))),
      many(accept(is_digit)), many(accept(is_any)), many(a_then_x),
      many(discard(accept(is_not(is_digit)))), many(succ), many(fail),
      recognise_number, some(accept(is_either(is_lower, is_digit))),
      discard(accept(is_char(97))), discard(recognise_number),
      discard(all("return_int", <<recognise_number>>)),
      sequence(discard(recognise_space), accept(is_digit)),
      sequence(accept(is_either(is_space, is_lower)), expect(is_digit)),
      all("return_int", <<recognise_number>>),
      many(all("return_int", <<accept(is_digit)>>)),
      parse_operand, any_operator, parse_operator, parse,
      all("return_right", <<any_operator, all("return_int", <<accept(is_digit)>>)>>),
      a_then_x_or_a }

RECURSIVE Streams(_)
Streams(n) ==
    IF n = 0 THEN {<<>>}
    ELSE LET S == Streams(n - 1) IN
         S \cup {Append(s, c) : s \in {t \in S : Len(t) = n - 1}, c \in Alphabet}

\* the slot the caller declares for a parser of result type t
Slot(t) == Default(t)

\* what a store through nullptr can do
Builds == {"trap", "elide"}

\* pstream in(data); p(in, &a): the machine as the caller starts it
Start(p, data, a, ub) ==
    [in |-> pstream(data),
     stack |-> <<Frame(p, 1, a)>>,
     ret |-> FALSE,
     mem |-> <<a>>,
     err |-> NoError,
     fault |-> FALSE,
     calls |-> <<>>,
     rmoved |-> FALSE,
     ub |-> ub]

\* a thread that runs no parser
Idle == [Start(succ, <<>>, <<>>, "trap") EXCEPT !.stack = <<>>]

\* Most parsers that are defined while a program is composed.
MaxBuilt == 3

NoReject == [op |-> "none", l |-> 0, r |-> 0]

\* no parser defined yet
Composed == [defs |-> <<>>, err |-> NoReject]

\* operator|| and operator&& on the parsers i and j defined so far: enabled
\* when their result types are compatible, and then the new parser has the
\* least general of them; no operator is found (err) when they are not
combinator(b, op, i, j) ==
    LET t1 == b.defs[i].type
        t2 == b.defs[j].type
    IN  IF is_compatible(t1, t2)
        THEN [b EXCEPT !.defs = Append(@, [op |-> op, l |-> i, r |-> j,
                                            type |-> least_general(t1, t2)])]
        ELSE [b EXCEPT !.err = [op |-> op, l |-> i, r |-> j]]

\* root is the parser, vm the machine of the thread that runs it; vm2 is the
\* machine of a second thread and built the parsers defined so far, with their
\* result types, while the program is composed.
VARIABLES root, vm, vm2, built
vars == <<root, vm, vm2, built>>

Init ==
    /\ root \in Parsers
    /\ \E data \in Streams(MaxLen), ub \in Builds :
          vm = Start(root, data, Slot(result_type(root)), ub)
    /\ vm2 = Idle
    /\ built = Composed

Running(op) == vm.stack # <<>> /\ Top(vm).p.op = op

AcceptCall ==
    /\ Running("accept")
    /\ vm' = recogniser_accept(vm)
    /\ UNCHANGED <<root, vm2, built>>

ExpectCall ==
    /\ Running("expect")
    /\ vm' = recogniser_expect(vm)
    /\ UNCHANGED <<root, vm2, built>>

SuccCall == Running("succ") /\ vm' = parser_succ(vm) /\ UNCHANGED <<root, vm2, built>>

FailCall == Running("fail") /\ vm' = parser_fail(vm) /\ UNCHANGED <<root, vm2, built>>

AnyCall == Running("any") /\ vm' = fmap_choice(vm) /\ UNCHANGED <<root, vm2, built>>

AllCall == Running("all") /\ vm' = fmap_sequence(vm) /\ UNCHANGED <<root, vm2, built>>

ChoiceCall == Running("choice") /\ vm' = combinator_choice(vm) /\ UNCHANGED <<root, vm2, built>>

SequenceCall == Running("sequence") /\ vm' = combinator_sequence(vm) /\ UNCHANGED <<root, vm2, built>>

ManyCall == Running("many") /\ vm' = combinator_many(vm) /\ UNCHANGED <<root, vm2, built>>

DiscardCall == Running("discard") /\ vm' = combinator_discard(vm) /\ UNCHANGED <<root, vm2, built>>

Next ==
    \/ AcceptCall
    \/ ExpectCall
    \/ SuccCall
    \/ FailCall
    \/ AnyCall
    \/ AllCall
    \/ ChoiceCall
    \/ SequenceCall
    \/ ManyCall
    \/ DiscardCall

Spec == Init /\ [][Next]_vars

\* A parse runs on one thread and every operator() in progress takes its next
\* step: the machine never stops while an invocation is in progress.
LiveSpec == Spec /\ WF_vars(Next)

\* ------------------------------------------------------------------------
\* Composition: parsers are defined one after the other, from a recogniser or
\* a reducer (any result type) or from two earlier ones with || or &&.

BuildInit ==
    /\ root = succ
    /\ vm = Idle
    /\ vm2 = Idle
    /\ built = Composed

Building == Len(built.defs) < MaxBuilt /\ built.err = NoReject

DefineParser ==
    /\ Building
    /\ \E t \in Types :
          built' = [built EXCEPT !.defs =
                       Append(@, [op |-> "parser", l |-> 0, r |-> 0, type |-> t])]
    /\ UNCHANGED <<root, vm, vm2>>

ChoiceOperator ==
    /\ Building
    /\ \E i, j \in DOMAIN built.defs : built' = combinator(built, "choice", i, j)
    /\ UNCHANGED <<root, vm, vm2>>

SequenceOperator ==
    /\ Building
    /\ \E i, j \in DOMAIN built.defs : built' = combinator(built, "sequence", i, j)
    /\ UNCHANGED <<root, vm, vm2>>

BuildNext ==
    \/ DefineParser
    \/ ChoiceOperator
    \/ SequenceOperator

BuildSpec == BuildInit /\ [][BuildNext]_vars

\* ------------------------------------------------------------------------
\* Two threads run the same parser value, each on a pstream and a result slot
\* of its own.

\* Longest input stream of the two threads.
MaxParLen == 2

ParStreams ==
    {data \in Streams(MaxParLen) : \A k \in DOMAIN data : data[k] \in {97, 120, 49}}

ParParsers ==
    { a_then_x, choice(a_then_b, accept(is_char(120))), option(accept(is_char(97))),
      sequence(accept(is_either(is_space, is_lower)), expect(is_digit)),
      many(accept(is_digit)), all("return_int", <<recognise_number>>),
      a_then_x_or_a }

\* a thread that shares the other thread's pstream
thread_one_stream(mine, theirs) == invoke([mine EXCEPT !.in = theirs.in])

\* the next step of a thread: operator() is const, and reads and writes only
\* the pstream and the slot it is passed and its own locals
thread(mine, theirs) == invoke(mine)

ParInit ==
    /\ root \in ParParsers
    /\ \E d1, d2 \in ParStreams :
          /\ vm = Start(root, d1, Slot(result_type(root)), "trap")
          /\ vm2 = Start(root, d2, Slot(result_type(root)), "trap")
    /\ built = Composed

Thread1 ==
    /\ vm.stack # <<>>
    /\ vm' = thread(vm, vm2)
    /\ UNCHANGED <<root, vm2, built>>

Thread2 ==
    /\ vm2.stack # <<>>
    /\ vm2' = thread(vm2, vm)
    /\ UNCHANGED <<root, vm, built>>

ParNext ==
    \/ Thread1
    \/ Thread2

ParSpec == ParInit /\ [][ParNext]_vars

\* ------------------------------------------------------------------------
\* The arithmetic parser on well-formed expressions.

\* Most operators of an expression.
MaxOps == 2

Numbers == {3, 10}

\* the digits of n
RECURSIVE to_string(_)
to_string(n) ==
    IF n < 10 THEN <<48 + n>> ELSE to_string(n \div 10) \o <<48 + (n % 10)>>

\* '+', '-', '*', '/' in the order of enum op
op_char(o) == CASE o = 0 -> 43 [] o = 1 -> 45 [] o = 2 -> 42 [] o = 3 -> 47

\* n0 op1 n1 ... opk nk, k <= n, as <<n0, op1, n1, ...>>
RECURSIVE Exprs(_)
Exprs(n) ==
    IF n = 0 THEN {<<k>> : k \in Numbers}
    ELSE LET S == Exprs(n - 1) IN
         S \cup {e \o <<o, k>> : e \in {x \in S : Len(x) = 2 * n - 1},
                                  o \in 0..3, k \in Numbers}

\* the text of e, with lead before the first token and gap before the others
RECURSIVE Text(_, _, _)
Text(e, lead, gap) ==
    IF Len(e) = 1 THEN lead \o to_string(e[1])
    ELSE Text(SubSeq(e, 1, Len(e) - 2), lead, gap)
            \o gap \o <<op_char(e[Len(e) - 1])>> \o gap \o to_string(e[Len(e)])

\* "1 + 2 * 3" and "10 - 4 - 3"
Examples == {<<1, 0, 2, 2, 3>>, <<10, 1, 4, 1, 3>>}

\* what the caller's int a, which is not initialised, may hold
Garbage == {0, 99}

ExprInit ==
    /\ root = parse
    /\ \E e \in Exprs(MaxOps) \cup Examples, lead \in {<<>>, <<32>>}, gap \in {<<>>, <<32>>},
          a \in Garbage :
          vm = Start(parse, Text(e, lead, gap), a, "trap")
    /\ vm2 = Idle
    /\ built = Composed

ExprNext ==
    \/ AcceptCall
    \/ AnyCall
    \/ AllCall
    \/ SequenceCall
    \/ ManyCall
    \/ DiscardCall

ExprSpec == ExprInit /\ [][ExprNext]_vars

\* the outermost invocation has returned
Done == vm.stack = <<>> /\ vm.err = NoError /\ ~vm.fault
\* the outermost invocation was left by a parse_error
Raised == vm.err # NoError

TypeOK ==
    /\ vm.ret \in BOOLEAN
    /\ vm.in.count \in 0..MaxCount
    /\ Len(vm.mem) >= 1

\* ------------------------------------------------------------------------
\* What one step of the innermost invocation does.

\* it returns b to its caller
Returns(b) ==
    /\ vm'.stack = SubSeq(vm.stack, 1, Len(vm.stack) - 1)
    /\ vm'.ret = b
    /\ vm'.err = NoError /\ ~vm'.fault

\* it invokes q(in, res) and waits for it: the stream is left as it is
Calls(q, res) ==
    /\ Len(vm'.stack) = Len(vm.stack) + 1
    /\ Top(vm').p = q /\ Top(vm').res = res /\ Top(vm').pc = "enter"
    /\ vm'.in = vm.in

\* the sub-parser the innermost invocation waited for at pc has returned
Resumed(op, pc) == Running(op) /\ Top(vm).pc = pc

C2_FailureLeavesSlot ==
    [][vm.stack # <<>> /\ Returns(FALSE) =>
          Deref(vm', Top(vm).res) = Top(vm).r0]_vars

\* C2 amended: an invocation of accept, expect, succ, fail, many, discard,
\* all or any that returns false leaves *result as it was on entry; an
\* invocation of p && q or p || q that returns false leaves *result as its
\* sub-parsers left it, with whatever those that succeeded have written.
C2_FailureLeavesSlotUnlessComposite ==
    [][vm.stack # <<>> /\ Returns(FALSE) =>
          IF Top(vm).p.op \in {"choice", "sequence"}
          THEN vm'.mem = vm.mem
          ELSE Deref(vm', Top(vm).res) = Top(vm).r0]_vars

\* an any has returned false after a sub-parser had advanced the stream and
\* written into its temporary
C2_FailedAfterWriting ==
    /\ Done /\ ~vm.ret /\ root.op = "any"
    /\ vm.in.count > 0 /\ vm.mem = <<0>>

\* C3: when the lookahead does not satisfy the predicate, accept returns
\* false and leaves row, col, count, the lookahead and every result slot as
\* they were.
C3_AcceptSoftFailure ==
    [][Running("accept") /\ ~holds(Top(vm).p.pred, vm.in.sym) =>
          /\ Returns(FALSE)
          /\ vm'.in = vm.in
          /\ vm'.mem = vm.mem]_vars

\* accept 'x' has failed on the lookahead that follows a consumed 'a'
C3_AcceptFailed ==
    /\ Done /\ ~vm.ret /\ root = a_then_x
    /\ vm.in.count = 1 /\ vm.in.sym # 120 /\ vm.mem = <<<<97>>>>

\* C4: expect appends the lookahead, advances by one and returns true when
\* the lookahead satisfies the predicate, as accept does; otherwise it throws
\* a parse_error with the predicate's name, the stream's row and col and the
\* lookahead, and neither the stream nor *result changes. expect(is_digit)
\* on "x" throws expectation "digit", row 1, col 1, symbol 'x'.
C4_ExpectRaises ==
    /\ [][Running("expect") =>
            IF holds(Top(vm).p.pred, vm.in.sym)
            THEN /\ vm' = recogniser_accept(vm)
                 /\ Returns(TRUE)
                 /\ vm'.in.count = vm.in.count + 1
                 /\ Deref(vm', Top(vm).res) =
                       IF Top(vm).res = 0 THEN <<>>
                       ELSE Append(Top(vm).r0, vm.in.sym)
            ELSE /\ vm'.err = [what |-> "expected", row |-> vm.in.row,
                               col |-> vm.in.col, exp |-> name(Top(vm).p.pred),
                               sym |-> vm.in.sym]
                 /\ vm'.in = vm.in
                 /\ vm'.mem[1] = vm.mem[1]]_vars
    /\ [](Raised /\ root = expect(is_digit) /\ vm.in.data = <<120>> =>
            vm.err = [what |-> "expected", row |-> 1, col |-> 1,
                      exp |-> "digit", sym |-> 120])

\* expect has thrown away from the first position, on a newline lookahead
C4_Raised ==
    /\ Raised /\ root.op = "sequence"
    /\ vm.err.row = 2 /\ vm.err.col = 0 /\ vm.err.sym = 10
    /\ vm.err.exp = "digit"

\* the predicate is built with the explicit end-of-input predicate
RECURSIVE MentionsEof(_)
MentionsEof(P) ==
    \/ P.k = "char" /\ P.c = EOF
    \/ \E k \in DOMAIN P.ps : MentionsEof(P.ps[k])

\* the outermost invocation is over, by a return or by a throw
Terminated == vm.stack = <<>>

\* when the body of the outermost many has returned true, it has advanced
\* the stream
BodyAdvanced ==
    Resumed("many", "p") /\ Len(vm.stack) = 1 /\ vm.ret => vm.rmoved

\* C5: many(p) terminates on every finite input when every run of p either
\* returns false or returns true having advanced the stream by at least one
\* symbol, as many(accept(pred)) does for every pred built from the class
\* predicates, is_char, 'or' and 'not'.
C5_ManyTerminates ==
    (root.op = "many" /\ []BodyAdvanced) => <>Terminated

\* C6: no predicate built without the explicit end-of-input predicate holds
\* of EOF, so accept of such a predicate returns false once the lookahead is
\* EOF.
C6_EofSatisfiesNoPredicate ==
    [][Running("accept") /\ vm.in.sym = EOF /\ ~MentionsEof(Top(vm).p.pred) =>
          /\ ~holds(Top(vm).p.pred, EOF)
          /\ Returns(FALSE)]_vars

\* C7: many(p) runs p on the same stream and result slot, again after every
\* run that returned true, and at the first run that returns false it
\* returns true, zero repetitions included.
C7_ManyRepeatsUntilFalse ==
    /\ [][Running("many") =>
            CASE Top(vm).pc = "enter" ->
                   Calls(Top(vm).p.ps[1], Top(vm).res) /\ vm'.mem = vm.mem
              [] Top(vm).pc = "p" ->
                   IF vm.ret
                   THEN Calls(Top(vm).p.ps[1], Top(vm).res) /\ vm'.mem = vm.mem
                   ELSE Returns(TRUE) /\ vm'.in = vm.in /\ vm'.mem = vm.mem]_vars
    /\ [](Done /\ root.op = "many" => vm.ret)

\* many has returned after its body failed on the first run, input left
C7_ZeroRepetitions ==
    /\ Done /\ root.op = "many" /\ vm.ret
    /\ vm.in.count = 0 /\ Len(vm.in.data) > 0 /\ vm.mem = <<<<>>>>

\* C8: p && q runs q only after p returned true, on the stream as p left it
\* and with the same result slot; when q returns false p && q returns false
\* and the stream stays where q left it. accept('a') && accept('b') on "ax"
\* returns false with 'a' consumed and 'x' the lookahead.
C8_SequenceNotAtomic ==
    /\ [][Running("sequence") =>
            CASE Top(vm).pc = "enter" -> Calls(Top(vm).p.ps[1], Top(vm).res)
              [] Top(vm).pc = "p1" ->
                   IF vm.ret
                   THEN Calls(Top(vm).p.ps[2], Top(vm).res) /\ vm'.mem = vm.mem
                   ELSE Returns(FALSE) /\ vm'.in = vm.in
              [] Top(vm).pc = "p2" ->
                   Returns(vm.ret) /\ vm'.in = vm.in /\ vm'.mem = vm.mem]_vars
    /\ [](Done /\ root = a_then_b /\ vm.in.data = <<97, 120>> =>
            ~vm.ret /\ vm.in.count = 1 /\ vm.in.sym = 120 /\ vm.in.col = 2)

\* accept('a') && accept('b') has returned false on "ax"
C8_CommittedFailure ==
    /\ Done /\ root = a_then_b /\ vm.in.data = <<97, 120>>
    /\ ~vm.ret /\ vm.in.count = 1 /\ vm.mem = <<<<97>>>>

\* C9: all(f, p1..pn) makes n value-initialised temporaries on entry, runs
\* p1..pn in order, pi on temporary i, which still holds its initial value
\* when pi is invoked; when pn has returned true it calls f once with the
\* result slot and the temporaries and returns true; when some pi returns
\* false it runs no further sub-parser, does not call f and returns false.
\* Inside many, every invocation starts from fresh temporaries.
C9_AllReducesOnce ==
    /\ [][Running("all") =>
            LET fr == Top(vm)
                n == Len(fr.p.ps)
            IN  CASE fr.pc = "enter" ->
                       /\ Calls(fr.p.ps[1], Len(vm.mem) + 1)
                       /\ Len(vm'.mem) = Len(vm.mem) + n
                       /\ \A k \in 1..n :
                             vm'.mem[Len(vm.mem) + k] = Default(result_type(fr.p.ps[k]))
                       /\ vm'.calls = vm.calls
                  [] fr.pc = "sub" /\ vm.ret /\ fr.i < n ->
                       /\ Calls(fr.p.ps[fr.i + 1], fr.base + fr.i + 1)
                       /\ Top(vm').r0 = Default(result_type(fr.p.ps[fr.i + 1]))
                       /\ vm'.mem = vm.mem
                       /\ vm'.calls = vm.calls
                  [] fr.pc = "sub" /\ vm.ret /\ fr.i = n ->
                       /\ vm'.calls = Append(vm.calls,
                             [f |-> fr.p.f, res |-> fr.res, idx |-> -1, args |-> Tmp(vm)])
                       /\ fr.res # 0 =>
                             /\ Returns(TRUE)
                             /\ vm'.mem[fr.res] =
                                   functor(fr.p.f, vm.mem[fr.res], -1, Tmp(vm))
                  [] fr.pc = "sub" /\ ~vm.ret ->
                       Returns(FALSE) /\ vm'.calls = vm.calls]_vars
    /\ [](Done /\ root = many(all("return_int", <<accept(is_digit)>>)) =>
            /\ Len(vm.calls) = vm.in.count
            /\ \A k \in DOMAIN vm.calls : vm.calls[k].args = <<<<49>>>>)

\* many(all(return_int, accept(is_digit))) has reduced twice, each time from
\* one digit
C9_ReducedTwice ==
    /\ Done /\ root = many(all("return_int", <<accept(is_digit)>>))
    /\ Len(vm.calls) = 2 /\ vm.mem = <<1>>

\* C10: any(f, p1..pn) runs p1..pn in order; at the first that returns true
\* it calls f once with the result slot, the zero-based index of that
\* sub-parser and the temporaries, runs no further sub-parser and returns
\* true; when every sub-parser has returned false it returns false without
\* calling f. On "*" the operator parser calls return_op with index 2.
C10_AnyReducesWithIndex ==
    /\ [][Running("any") =>
            LET fr == Top(vm)
                n == Len(fr.p.ps)
            IN  CASE fr.pc = "enter" ->
                       Calls(fr.p.ps[1], Len(vm.mem) + 1) /\ vm'.calls = vm.calls
                  [] fr.pc = "sub" /\ vm.ret ->
                       /\ vm'.calls = Append(vm.calls,
                             [f |-> fr.p.f, res |-> fr.res, idx |-> fr.i - 1,
                              args |-> Tmp(vm)])
                       /\ fr.res # 0 =>
                             /\ Returns(TRUE)
                             /\ vm'.mem[fr.res] =
                                   functor(fr.p.f, vm.mem[fr.res], fr.i - 1, Tmp(vm))
                  [] fr.pc = "sub" /\ ~vm.ret /\ fr.i < n ->
                       /\ Calls(fr.p.ps[fr.i + 1], fr.base + fr.i + 1)
                       /\ vm'.calls = vm.calls
                  [] fr.pc = "sub" /\ ~vm.ret /\ fr.i = n ->
                       Returns(FALSE) /\ vm'.calls = vm.calls]_vars
    /\ [](Done /\ root = any_operator =>
            IF vm.in.data # <<>> /\ vm.in.data[1] \in {43, 42}
            THEN /\ vm.ret
                 /\ Len(vm.calls) = 1
                 /\ vm.calls[1].idx = (IF vm.in.data[1] = 43 THEN 0 ELSE 2)
                 /\ vm.mem = <<vm.calls[1].idx>>
            ELSE ~vm.ret /\ vm.calls = <<>>)

\* the operator parser has matched '*', its third alternative
C10_MatchedThird ==
    /\ Done /\ root = any_operator /\ vm.ret
    /\ vm.calls = <<[f |-> "return_op", res |-> 1, idx |-> 2,
                     args |-> <<<<>>, <<>>, <<42>>, <<>>>>]>>

\* ------------------------------------------------------------------------
\* C11: discard(p) returns what p returns on the same input and leaves the
\* stream where p leaves it, and the caller's result slot is after
\* discard(p) what it was before, whether p returned true or false.
C11_DiscardAsBody ==
    /\ [][Resumed("discard", "p") =>
            /\ Returns(vm.ret)
            /\ vm'.in = vm.in
            /\ Deref(vm', Top(vm).res) = Top(vm).r0]_vars
    /\ [](root.op = "discard" /\ Terminated =>
            LET p == root.ps[1]
                alone == run(Start(p, vm.in.data, Slot(result_type(p)), vm.ub),
                             MaxSteps)
            IN  /\ alone.stack = <<>>
                /\ vm.fault = alone.fault /\ vm.err = alone.err
                /\ vm.ret = alone.ret
                /\ vm.in = alone.in
                /\ vm.mem = <<Slot(result_type(root))>>)

\* the symbols the stream has advanced past: next() has run count times
Consumed(in) ==
    SubSeq(in.data, 1, IF in.count < Len(in.data) THEN in.count ELSE Len(in.data))

\* how many newlines there are in s
Newlines(s) == Cardinality({k \in DOMAIN s : s[k] = 10})

\* how many printable symbols follow the last newline of s
PrintableTail(s) ==
    Cardinality({k \in DOMAIN s :
                    /\ isprint(s[k])
                    /\ \A j \in DOMAIN s : s[j] = 10 => j < k})

\* C12: at every moment row is 1 + the number of newlines the stream has
\* advanced past and col is 1 + the number of printable symbols it has
\* advanced past since the last of those newlines.
C12_RowColOfConsumed ==
    /\ vm.in.row = 1 + Newlines(Consumed(vm.in))
    /\ vm.in.col = 1 + PrintableTail(Consumed(vm.in))

\* C13: the result type of p || q and of p && q is the other child's type
\* when one child's is void, the common type when both are the same, and the
\* more specific (derived) type when a pointer to one converts to a pointer
\* to the other; it is the same for (p, q) and (q, p); and when neither
\* converts to the other no operator is defined: the combination is rejected.
C13_LeastGeneral ==
    /\ \A k \in DOMAIN built.defs :
          LET def == built.defs[k] IN
          def.op # "parser" =>
             LET a == built.defs[def.l].type
                 b == built.defs[def.r].type
             IN  /\ a = "void" => def.type = b
                 /\ b = "void" => def.type = a
                 /\ a = b => def.type = a
                 /\ {a, b} = {"Base", "Derived"} => def.type = "Derived"
                 /\ def.type = least_general(b, a)
                 /\ def.type \in {a, b}
                 /\ a = "void" \/ b = "void" \/ a = b \/ {a, b} = {"Base", "Derived"}
    /\ built.err # NoReject =>
          LET a == built.defs[built.err.l].type
              b == built.defs[built.err.r].type
          IN  a # "void" /\ b # "void" /\ a # b /\ {a, b} # {"Base", "Derived"}

\* a parser of a base type and one of a derived type have been combined, in
\* this order, into one of the derived type
C13_DerivedChosen ==
    \E k \in DOMAIN built.defs :
        /\ built.defs[k].op = "choice" /\ built.defs[k].type = "Derived"
        /\ built.defs[built.defs[k].l].type = "Base"
        /\ built.defs[built.defs[k].r].type = "Derived"

\* the parse of root on data, run on its own
Alone(data) == run(Start(root, data, Slot(result_type(root)), "trap"), MaxSteps)

\* the return value or the error, the final pstream and the final slot
Outcome(m) == <<m.stack, m.ret, m.err, m.in, m.mem[1]>>

RECURSIVE LongestPrefix(_, _)
LongestPrefix(P, data) ==
    IF data = <<>> \/ ~holds(P, data[1]) THEN <<>>
    ELSE <<data[1]>> \o LongestPrefix(P, Tail(data))

\* C15: some(accept(pred)) on an empty string slot returns true iff the
\* first symbol satisfies pred, and then the slot holds the longest prefix of
\* the input whose symbols all satisfy pred, the lookahead is the first
\* symbol after that prefix and, the prefix being printable symbols of the
\* first line, col is 1 + the length of the prefix.
C15_SomeTakesLongestPrefix ==
    \A P \in {is_digit, is_either(is_lower, is_digit)} :
        root = some(accept(P)) /\ Done =>
            LET data == vm.in.data
                prefix == LongestPrefix(P, data)
                n == Len(prefix)
            IN  /\ vm.ret <=> holds(P, sbumpc(data))
                /\ vm.ret =>
                      /\ vm.mem = <<prefix>>
                      /\ vm.in.sym = (IF n < Len(data) THEN data[n + 1] ELSE EOF)
                      /\ (\A k \in 1..n : isprint(prefix[k])) => vm.in.col = 1 + n

\* acc op n in C++ int arithmetic, op in the order + - * /
Apply(acc, op, n) ==
    CASE op = 0 -> acc + n
      [] op = 1 -> acc - n
      [] op = 2 -> acc * n
      [] op = 3 -> quot(acc, n)

\* the value of the expression text s read strictly from left to right: acc
\* is the value so far, op the operator read last and n the number being read
RECURSIVE LeftToRight(_, _, _, _)
LeftToRight(s, acc, op, n) ==
    IF s = <<>> THEN Apply(acc, op, n)
    ELSE IF s[1] = 32 THEN LeftToRight(Tail(s), acc, op, n)
    ELSE IF isdigit(s[1]) THEN LeftToRight(Tail(s), acc, op, 10 * n + (s[1] - 48))
    ELSE LeftToRight(Tail(s), Apply(acc, op, n),
                     CHOOSE o \in 0..3 : op_char(o) = s[1], 0)

\* C16: on a well-formed expression n0 op1 n1 ... opk nk, with or without
\* spaces before the tokens, the arithmetic parser returns true and leaves
\* (((n0 op1 n1) op2 n2) ... opk nk) in the caller's slot, whatever the slot
\* held: "1 + 2 * 3" gives 9 and "10 - 4 - 3" gives 3.
C16_LeftToRight ==
    /\ Terminated =>
          /\ Done /\ vm.ret
          /\ vm.mem = <<LeftToRight(vm.in.data, 0, 0, 0)>>
    /\ Done /\ vm.in.data = <<49, 32, 43, 32, 50, 32, 42, 32, 51>> => vm.mem = <<9>>
    /\ Done /\ vm.in.data = <<49, 48, 32, 45, 32, 52, 32, 45, 32, 51>> => vm.mem = <<3>>

\* the parser has returned 9 for "1 + 2 * 3", after eight reductions
C16_NineNotSeven ==
    /\ Done /\ vm.ret /\ vm.mem = <<9>>
    /\ vm.in.data = <<49, 32, 43, 32, 50, 32, 42, 32, 51>>
    /\ Len(vm.calls) = 8 /\ vm.calls[1].f = "return_int"

\* C17 as stated: when a run of p inside many(p) has returned false having
\* advanced the stream, many(p) returns false; it returns true only when
\* the failing run of p left the stream where it was.
C17_CommittedFailureSurfaces ==
    [][Resumed("many", "p") /\ ~vm.ret => Returns(~vm.rmoved)]_vars

\* C17 amended: when a run of p inside many(p) has returned false having
\* advanced the stream, many(p) still returns true, with the stream and the
\* slot as the failing run left them; the failure does not surface: the
\* arithmetic parser returns true with 1 on "1+", the '+' consumed.
C17_CommittedFailureSwallowed ==
    /\ [][Resumed("many", "p") /\ ~vm.ret /\ vm.rmoved =>
            Returns(TRUE) /\ vm'.in = vm.in /\ vm'.mem = vm.mem]_vars
    /\ [](Done /\ root = parse /\ vm.in.data = <<49, 43>> =>
            vm.ret /\ vm.mem = <<1>> /\ vm.in.count = 2 /\ vm.in.sym = EOF)

\* the arithmetic parser has returned true on "1+"
C17_SwallowedOperator ==
    /\ Done /\ root = parse /\ vm.in.data = <<49, 43>>
    /\ vm.ret /\ vm.in.count = 2 /\ Len(vm.calls) = 3

\* the innermost invocation is an any whose sub-parser has just returned
\* true: it is about to call the reducer
Reducing == Resumed("any", "sub") /\ vm.ret

\* C18 as stated: when any calls the reducer with index k, every temporary
\* but tmp_k holds the value it was initialised with.
C18_OnlyMatchedPopulated ==
    Reducing =>
        \A j \in 1..Len(Top(vm).p.ps) :
            j # Top(vm).i => Tmp(vm)[j] = Default(result_type(Top(vm).p.ps[j]))

\* C18 amended: when any calls the reducer with index k, every temporary
\* after tmp_k holds the value it was initialised with, and so does every
\* temporary before tmp_k whose sub-parser is not a p && q or a p || q; the
\* temporary of a p && q or p || q that failed holds what its parts wrote
\* before it failed: any(f, accept('a') && accept('x'), accept('a'), ...) on
\* "aa" calls f with index 1, tmp_0 = "a" and tmp_1 = "a".
C18_LaterTemporariesEmpty ==
    /\ Reducing =>
          \A j \in 1..Len(Top(vm).p.ps) :
              j > Top(vm).i \/ (j < Top(vm).i /\ Top(vm).p.ps[j].op \notin {"choice", "sequence"})
                  => Tmp(vm)[j] = Default(result_type(Top(vm).p.ps[j]))
    /\ Done /\ root = a_then_x_or_a /\ Len(vm.in.data) >= 2
          /\ SubSeq(vm.in.data, 1, 2) = <<97, 97>> =>
          vm.calls = <<[f |-> "return_op", res |-> 1, idx |-> 1,
                        args |-> <<<<97>>, <<97>>, <<>>, <<>>>>]>>

\* the reducer has been called with index 1 and a first temporary that the
\* failed first alternative had written
C18_StaleTemporary ==
    /\ Done /\ root = a_then_x_or_a /\ vm.ret /\ vm.mem = <<1>>
    /\ Len(vm.calls) = 1 /\ vm.calls[1].idx = 1 /\ vm.calls[1].args[1] = <<97>>

\* C19: the caller passing a result slot that is not nullptr (Start passes
\* slot 1), every reducer that all(f, ...) or any(f, ...) calls anywhere in
\* the parser is handed a result pointer that is not nullptr, inside discard
\* too.
C19_ReducerSlotNotNull ==
    \A k \in DOMAIN vm.calls : vm.calls[k].res # 0

====
